---------------------------- MODULE Spec2Model ----------------------------
(***************************************************************************)
(* Model of the session-secret manager (src/crypto/keychainManager.ts) and *)
(* of the secure-note retrieval (src/middleware/getSecureNotes.ts).        *)
(*                                                                         *)
(* JavaScript values are records, so that any two of them can be compared: *)
(*   [str |-> <<code points>>]   a string                                  *)
(*   [bytes |-> <<0..255>>]      a Buffer                                  *)
(*   [random |-> k, length |-> n] the Buffer of n bytes that is the k-th   *)
(*                               output of the random source               *)
(*   [base64 |-> buffer]         the string buffer.toString('base64')      *)
(*   [undefined |-> TRUE], [null |-> TRUE]                                 *)
(***************************************************************************)
EXTENDS Integers, Sequences, FiniteSets, TLC

VARIABLES
    keychain,     \* CredentialCache: login -> base64 string stored by keytar, or Null
    device,       \* DeviceStore: the rows of table `device`
    registered,   \* number of device registrations the registrar has served
    call,         \* the getSecrets call in flight: its position and its locals
    io,           \* the external calls made by the current getSecrets call, in order
    result,       \* outcome of the last finished getSecrets call
    firstRun,     \* login -> Secrets returned by the last first-run setup of the login
    note,         \* the getNote call: its position and its locals
    stdout,       \* what console.log has written
    log           \* what winston has written

vars == <<keychain, device, registered, call, io, result, firstRun,
          note, stdout, log>>

keyVars == <<keychain, device, registered, call, io, result, firstRun>>
noteVars == <<note, stdout, log>>

-----------------------------------------------------------------------------
(* Bounds of the model *)

MaxRegistrations == 3
NumKeys == 2
MaxTransactions == 3

(* Program constants *)

LocalKeyBytes == 32

-----------------------------------------------------------------------------
(* JavaScript values *)

Undefined == [undefined |-> TRUE]
Null == [null |-> TRUE]
Str(s) == [str |-> s]
Buf(b) == [bytes |-> b]

Logins == {"alice", "bob"}

\* "pe'" (with U+00E9, two bytes in UTF-8) and "q"
Passwords == {Str(<<112, 233>>), Str(<<113>>)}

-----------------------------------------------------------------------------
(* Conversions of Node's Buffer *)

\* the digits "0".."9", "a".."f", as code points
HexDigits == <<48, 49, 50, 51, 52, 53, 54, 55, 56, 57, 97, 98, 99, 100, 101, 102>>

\* buf.toString('hex'): two lowercase digits per byte
HexEncode(b) ==
    [i \in 1..(2 * Len(b)) |->
        IF i % 2 = 1 THEN HexDigits[(b[(i + 1) \div 2] \div 16) + 1]
                     ELSE HexDigits[(b[i \div 2] % 16) + 1]]

\* the value of a hexadecimal digit, of either case, or -1
HexVal(c) ==
    IF c >= 48 /\ c <= 57 THEN c - 48
    ELSE IF c >= 97 /\ c <= 102 THEN c - 87
    ELSE IF c >= 65 /\ c <= 70 THEN c - 55
    ELSE -1

\* Buffer.from(s, 'hex'): pairs of digits, stopping at the first pair that is
\* not hexadecimal; a trailing single digit is dropped.
RECURSIVE HexDecode(_)
HexDecode(s) ==
    IF Len(s) < 2 \/ HexVal(s[1]) < 0 \/ HexVal(s[2]) < 0 THEN <<>>
    ELSE <<HexVal(s[1]) * 16 + HexVal(s[2])>> \o HexDecode(SubSeq(s, 3, Len(s)))

\* Buffer.from(s): UTF-8 of the code points (below U+0800 here)
RECURSIVE Utf8Encode(_)
Utf8Encode(s) ==
    IF s = <<>> THEN <<>>
    ELSE (IF s[1] < 128 THEN <<s[1]>>
          ELSE <<192 + (s[1] \div 64), 128 + (s[1] % 64)>>) \o Utf8Encode(Tail(s))

\* buf.toString(): UTF-8 decoding; an ill-formed byte decodes to U+FFFD
RECURSIVE Utf8Decode(_)
Utf8Decode(b) ==
    IF b = <<>> THEN <<>>
    ELSE IF b[1] < 128 THEN <<b[1]>> \o Utf8Decode(Tail(b))
    ELSE IF /\ b[1] >= 194 /\ b[1] < 224 /\ Len(b) >= 2
            /\ b[2] >= 128 /\ b[2] < 192
         THEN <<(b[1] - 192) * 64 + (b[2] - 128)>> \o Utf8Decode(SubSeq(b, 3, Len(b)))
    ELSE <<65533>> \o Utf8Decode(Tail(b))

\* Base64 text is a sequence of alphabet indices 0..63, with 64 for the pad '='.
\* buf.toString('base64'): four characters for every three bytes, padded
Base64Encode(b) ==
    LET n == Len(b)
        at(i) == IF i <= n THEN b[i] ELSE 0
    IN  [i \in 1..(4 * ((n + 2) \div 3)) |->
            LET g == (i - 1) \div 4
                b1 == at(3 * g + 1)
                b2 == at(3 * g + 2)
                b3 == at(3 * g + 3)
            IN  CASE (i - 1) % 4 = 0 -> b1 \div 4
                  [] (i - 1) % 4 = 1 -> (b1 % 4) * 16 + (b2 \div 16)
                  [] (i - 1) % 4 = 2 -> IF 3 * g + 2 > n THEN 64
                                        ELSE (b2 % 16) * 4 + (b3 \div 64)
                  [] OTHER -> IF 3 * g + 3 > n THEN 64 ELSE b3 % 64]

\* Buffer.from(t, 'base64'): the bytes of the characters before the first pad
Base64Decode(t) ==
    LET pads == {i \in 1..Len(t) : t[i] = 64}
        m == IF pads = {} THEN Len(t)
             ELSE (CHOOSE i \in pads : \A j \in pads : i <= j) - 1
    IN  [k \in 1..((m * 3) \div 4) |->
            LET g == (k - 1) \div 3
                t1 == t[4 * g + 1]
                t2 == t[4 * g + 2]
            IN  CASE (k - 1) % 3 = 0 -> t1 * 4 + (t2 \div 16)
                  [] (k - 1) % 3 = 1 -> (t2 % 16) * 16 + (t[4 * g + 3] \div 4)
                  [] OTHER -> (t[4 * g + 3] % 4) * 64 + t[4 * g + 4]]

\* the bytes of a Buffer
Bytes(buffer) ==
    IF "bytes" \in DOMAIN buffer THEN buffer.bytes
    ELSE [j \in 1..buffer.length |-> (buffer.random * 37 + j * 5) % 256]

\* crypto.randomBytes(LocalKeyBytes): one of NumKeys buffers of LocalKeyBytes bytes
RandomKeys == {[random |-> k, length |-> LocalKeyBytes] : k \in 1..NumKeys}

\* the Buffer that holds the bytes
BufferOf(b) ==
    LET same == {k \in RandomKeys : Len(b) = k.length /\ Bytes(k) = b}
    IN  IF same = {} THEN Buf(b) ELSE CHOOSE k \in same : TRUE

\* the characters of a string
Chars(string) ==
    IF "str" \in DOMAIN string THEN string.str
    ELSE Base64Encode(Bytes(string.base64))

\* buffer.length
Length(buffer) ==
    IF "bytes" \in DOMAIN buffer THEN Len(buffer.bytes) ELSE buffer.length

\* string.length: base64 text has four characters for every three bytes, padded
StringLength(string) ==
    IF "str" \in DOMAIN string THEN Len(string.str)
    ELSE 4 * ((Length(string.base64) + 2) \div 3)

\* `!v` of JavaScript is ~Truthy(v): undefined, null and "" are falsy, every
\* object (a Buffer too, even an empty one) is truthy.
Truthy(v) ==
    /\ v \notin {Undefined, Null}
    /\ (DOMAIN v) \in {{"str"}, {"base64"}} => StringLength(v) # 0

-----------------------------------------------------------------------------
(* CryptoPrimitives, at their interface *)

\* encryptAES(key, plaintext): a self-describing blob only `key` opens
encryptAES(key, plaintext) == [key |-> key, payload |-> plaintext, intact |-> TRUE]

\* decrypt(blob, key): the plaintext, or a thrown integrity error
decrypt(blob, key) ==
    IF blob.intact /\ blob.key = key
    THEN [ok |-> TRUE, value |-> blob.payload]
    ELSE [ok |-> FALSE, value |-> Undefined]

\* sha512(login).slice(0, 16)
Salt(login) == [sha512 |-> login, slice |-> 16]

\* getDerivateUsingParametersFromEncryptedData(masterPassword, parameters)
getDerivate(masterPassword, parameters) ==
    [algo |-> parameters.keyDerivation.algo,
     password |-> masterPassword,
     salt |-> parameters.cipherData.salt]

\* a blob as a damaged store hands it over
Corrupt(blob) == [blob EXCEPT !.intact = FALSE]

-----------------------------------------------------------------------------
(* CredentialCache (keytar), DeviceStore (table device), DeviceRegistrar *)

\* getLocalKey(login), given what keytar.getPassword(SERVICE, login) resolved to
getLocalKey(localKeyEncoded) ==
    IF Truthy(localKeyEncoded) THEN BufferOf(Base64Decode(Chars(localKeyEncoded)))
    ELSE Undefined

\* what setLocalKey hands to keytar.setPassword(SERVICE, login, ...)
EncodeLocalKey(localKey) == [base64 |-> localKey]

getDerivationParametersForLocalKey(login) ==
    [keyDerivation |-> [algo |-> "argon2d", saltLength |-> 16, tCost |-> 3,
                        mCost |-> 32768, parallelism |-> 2],
     cipherData |-> [salt |-> Salt(login)]]

\* registerDevice({ login }): the n-th registration issues a fresh pair; the
\* secret key is the lowercase hexadecimal text of random bytes
DeviceAccessKey(n) == Str(<<107, HexDigits[n + 1]>>)
DeviceSecretKey(n) == Str(HexEncode(<<n, 171>>))

\* the primary key of table device
DevicePrimaryKey(row) == row.login

\* mutant of ReplaceInto: a plain INSERT
InsertInto(table, row) == table \cup {row}

\* REPLACE INTO device VALUES (...): the row replaces the one with its key
ReplaceInto(table, row) ==
    {r \in table : DevicePrimaryKey(r) # DevicePrimaryKey(row)} \cup {row}

\* mutant of DeviceRow: the master password is bound as it is
DeviceRowPlainPassword(login, deviceAccessKey, deviceSecretKey, masterPassword, localKey, derivate) ==
    [login |-> login,
     accessKey |-> deviceAccessKey,
     secretKeyEncrypted |-> encryptAES(localKey, BufferOf(HexDecode(Chars(deviceSecretKey)))),
     masterPasswordEncrypted |-> masterPassword,
     localKeyEncrypted |-> encryptAES(derivate, localKey)]

\* mutant of DeviceRow: the secret key is encrypted under the derivate
DeviceRowDerivateWrapsSecret(login, deviceAccessKey, deviceSecretKey, masterPassword, localKey, derivate) ==
    [login |-> login,
     accessKey |-> deviceAccessKey,
     secretKeyEncrypted |-> encryptAES(derivate, BufferOf(HexDecode(Chars(deviceSecretKey)))),
     masterPasswordEncrypted |-> encryptAES(localKey, BufferOf(Utf8Encode(Chars(masterPassword)))),
     localKeyEncrypted |-> encryptAES(derivate, localKey)]

\* the row getSecretsWithoutDB binds to the statement
DeviceRow(login, deviceAccessKey, deviceSecretKey, masterPassword, localKey, derivate) ==
    [login |-> login,
     accessKey |-> deviceAccessKey,
     secretKeyEncrypted |-> encryptAES(localKey, BufferOf(HexDecode(Chars(deviceSecretKey)))),
     masterPasswordEncrypted |-> encryptAES(localKey, BufferOf(Utf8Encode(Chars(masterPassword)))),
     localKeyEncrypted |-> encryptAES(derivate, localKey)]

Secrets(login, masterPassword, accessKey, secretKey) ==
    [login |-> login, masterPassword |-> masterPassword,
     accessKey |-> accessKey, secretKey |-> secretKey]

-----------------------------------------------------------------------------
(* getSecrets: the pure parts *)

\* mutant of Branch: without a cached key the device is set up again
BranchNoRecovery(deviceKeys, localKey) ==
    IF ~Truthy(deviceKeys) \/ ~Truthy(localKey) THEN "WithoutDB" ELSE "fast"

\* which of the three branches getSecrets takes
Branch(deviceKeys, localKey) ==
    IF ~Truthy(deviceKeys) THEN "WithoutDB"
    ELSE IF ~Truthy(localKey) THEN "WithoutKeychain"
    ELSE "fast"

\* the two decryptions of getSecretsWithoutKeychain and what it returns
WithoutKeychainSecrets(login, deviceKeys, masterPassword, derivate) ==
    LET localKey == decrypt(deviceKeys.localKeyEncrypted, derivate)
        secretKey == decrypt(deviceKeys.secretKeyEncrypted, localKey.value)
    IN  IF ~localKey.ok \/ ~secretKey.ok
        THEN [ok |-> FALSE, localKey |-> Undefined, secrets |-> Undefined]
        ELSE [ok |-> TRUE, localKey |-> localKey.value,
              secrets |-> Secrets(login, masterPassword, deviceKeys.accessKey,
                                  Str(HexEncode(Bytes(secretKey.value))))]

\* mutant of FastSecrets: the secret key is read with toString() for toString('hex')
FastSecretsUtf8(login, deviceKeys, masterPassword, localKey) ==
    LET mp == decrypt(deviceKeys.masterPasswordEncrypted, localKey)
        secretKey == decrypt(deviceKeys.secretKeyEncrypted, localKey)
    IN  IF (~Truthy(masterPassword) /\ ~mp.ok) \/ ~secretKey.ok
        THEN [ok |-> FALSE, secrets |-> Undefined]
        ELSE [ok |-> TRUE,
              secrets |-> Secrets(login,
                                  IF ~Truthy(masterPassword)
                                  THEN Str(Utf8Decode(Bytes(mp.value)))
                                  ELSE masterPassword,
                                  deviceKeys.accessKey,
                                  Str(Utf8Decode(Bytes(secretKey.value))))]

\* mutant of FastSecrets: a supplied master password is compared with the stored one
FastSecretsChecked(login, deviceKeys, masterPassword, localKey) ==
    LET mp == decrypt(deviceKeys.masterPasswordEncrypted, localKey)
        secretKey == decrypt(deviceKeys.secretKeyEncrypted, localKey)
    IN  IF \/ ~mp.ok
           \/ ~secretKey.ok
           \/ (Truthy(masterPassword) /\ masterPassword # Str(Utf8Decode(Bytes(mp.value))))
        THEN [ok |-> FALSE, secrets |-> Undefined]
        ELSE [ok |-> TRUE,
              secrets |-> Secrets(login,
                                  Str(Utf8Decode(Bytes(mp.value))),
                                  deviceKeys.accessKey,
                                  Str(HexEncode(Bytes(secretKey.value))))]

\* the fast path of getSecrets
FastSecrets(login, deviceKeys, masterPassword, localKey) ==
    LET mp == decrypt(deviceKeys.masterPasswordEncrypted, localKey)
        secretKey == decrypt(deviceKeys.secretKeyEncrypted, localKey)
    IN  IF (~Truthy(masterPassword) /\ ~mp.ok) \/ ~secretKey.ok
        THEN [ok |-> FALSE, secrets |-> Undefined]
        ELSE [ok |-> TRUE,
              secrets |-> Secrets(login,
                                  IF ~Truthy(masterPassword)
                                  THEN Str(Utf8Decode(Bytes(mp.value)))
                                  ELSE masterPassword,
                                  deviceKeys.accessKey,
                                  Str(HexEncode(Bytes(secretKey.value))))]

-----------------------------------------------------------------------------
(* getNote: strings, notes and transactions *)

\* a string of letters is the sequence of its letters
ToLowerChar(c) ==
    CASE c = "W" -> "w" [] c = "I" -> "i" [] c = "F" -> "f" [] c = "P" -> "p"
      [] c = "T" -> "t" [] c = "C" -> "c" [] c = "O" -> "o" [] OTHER -> c

\* s.toLowerCase()
toLowerCase(s) == [i \in 1..Len(s) |-> ToLowerChar(s[i])]

\* s.includes(sub)
includes(s, sub) ==
    \E i \in 0..(Len(s) - Len(sub)) : SubSeq(s, i + 1, i + Len(sub)) = sub

\* entry._attributes.key[0].toLowerCase() + entry._attributes.key.slice(1)
LowerFirst(key) == <<ToLowerChar(key[1])>> \o Tail(key)

\* Object.fromEntries(KWDataItem.map(...)): of two entries with one key, the later wins
Beautify(item) ==
    LET keys == {LowerFirst(item[i][1]) : i \in 1..Len(item)}
        last(k) == CHOOSE i \in 1..Len(item) :
                      /\ LowerFirst(item[i][1]) = k
                      /\ \A j \in (i + 1)..Len(item) : LowerFirst(item[j][1]) # k
    IN  [k \in keys |-> item[last(k)][2]]

TitleField == <<"t", "i", "t", "l", "e">>
ContentField == <<"c", "o", "n", "t", "e", "n", "t">>

\* the KWDataItem list of a secure note
NoteItem(title, content) ==
    << <<(<<"T", "i", "t", "l", "e">>), title>>,
       <<(<<"C", "o", "n", "t", "e", "n", "t">>), content>>,
       <<(<<"O", "t", "p">>), "otp">> >>

\* the key decryptTransaction derives from the secrets
TransactionKey(masterPassword) == [vault |-> masterPassword]

\* decryptTransaction(transaction, secrets)
decryptTransaction(transaction, secrets) ==
    decrypt(transaction.content, TransactionKey(secrets.masterPassword))

Transaction(login, action, type, password, item) ==
    [login |-> login, action |-> action, type |-> type,
     content |-> encryptAES(TransactionKey(password), item)]

VaultPassword == Str(<<112, 233>>)

\* the rows table transactions can hold
TransactionPool ==
    LET wifi == Transaction("alice", "BACKUP_EDIT", "SECURENOTE", VaultPassword,
                            NoteItem(<<"W", "i", "f", "i">>, "content-1"))
        pin == Transaction("alice", "BACKUP_EDIT", "SECURENOTE", VaultPassword,
                           NoteItem(<<"P", "i", "n">>, "content-2"))
        wifi2 == Transaction("alice", "BACKUP_EDIT", "SECURENOTE", VaultPassword,
                             NoteItem(<<"w", "i", "f", "i">>, "content-3"))
        login == Transaction("alice", "BACKUP_EDIT", "AUTHENTIFIANT", VaultPassword,
                             NoteItem(<<"W", "i", "f", "i">>, "content-4"))
    IN  {wifi, pin, wifi2,
         [pin EXCEPT !.content = Corrupt(@)],
         [login EXCEPT !.content = Corrupt(@)],
         [wifi EXCEPT !.login = "bob"],
         [wifi2 EXCEPT !.action = "BACKUP_REMOVE"]}

\* sequences of at most n distinct rows
RECURSIVE Tables(_)
Tables(n) ==
    IF n = 0 THEN {<<>>}
    ELSE Tables(n - 1) \cup
         {Append(t, r) : t \in {u \in Tables(n - 1) : Len(u) = n - 1},
                         r \in TransactionPool}

TablesInputs ==
    {t \in Tables(MaxTransactions) : \A i, j \in 1..Len(t) : i # j => t[i] # t[j]}

TitleFilters ==
    {Null, Str(<<>>), Str(<<"w", "i", "f", "i">>), Str(<<"W", "I", "F", "I">>),
     Str(<<"i">>), Str(<<"x">>)}

NoteSecrets ==
    {Secrets("alice", p, Str(<<107, 49>>), Str(<<48, 49>>)) : p \in Passwords}

\* SELECT * FROM transactions WHERE login = ? AND action = 'BACKUP_EDIT'
SelectTransactions(table, login) ==
    LET Test(t) == t.login = login /\ t.action = "BACKUP_EDIT"
    IN  SelectSeq(table, Test)

\* transactions.filter((transaction) => transaction.type === 'SECURENOTE')
SecureNotesTransactions(transactions) ==
    LET Test(t) == t.type = "SECURENOTE"
    IN  SelectSeq(transactions, Test)

\* mutant of MatchedNotes: the filter is compared as it was typed
MatchedNotesFilterAsTyped(beautifiedNotes, titleFilter) ==
    IF Truthy(titleFilter)
    THEN LET Test(item) == includes(toLowerCase(item[TitleField]), titleFilter.str)
         IN  SelectSeq(beautifiedNotes, Test)
    ELSE beautifiedNotes

\* the notes kept by the title filter
MatchedNotes(beautifiedNotes, titleFilter) ==
    IF Truthy(titleFilter)
    THEN LET canonicalTitleFilter == toLowerCase(titleFilter.str)
             Test(item) == includes(toLowerCase(item[TitleField]), canonicalTitleFilter)
         IN  SelectSeq(beautifiedNotes, Test)
    ELSE beautifiedNotes

\* matchedNotes.sort(): without a comparator the elements are ordered by their
\* strings; every note is a plain object, whose string is "[object Object]",
\* and the sort is stable: the order is the one it was
DefaultSort(notes) == notes

\* mutant of HasFilters: titleFilter !== null
HasFiltersNotNull(titleFilter) == titleFilter # Null

\* Boolean(titleFilter)
HasFilters(titleFilter) == Truthy(titleFilter)

-----------------------------------------------------------------------------
(* getNote: the call *)

IdleNote ==
    [pc |-> "idle", titleFilter |-> Null, secrets |-> Undefined,
     table |-> <<>>, secureNotes |-> <<>>, pending |-> {}, decrypted |-> <<>>,
     matched |-> <<>>, asked |-> <<>>, selected |-> Undefined, error |-> ""]

\* getNote({ titleFilter, secrets, db }) is called: the log line, the query, and
\* the start of every decryption
StartNote(titleFilter, secrets, table) ==
    /\ note.pc = "idle"
    /\ LET secureNotes == SecureNotesTransactions(SelectTransactions(table, secrets.login))
       IN  note' = [IdleNote EXCEPT
                      !.pc = "decrypting",
                      !.titleFilter = titleFilter,
                      !.secrets = secrets,
                      !.table = table,
                      !.secureNotes = secureNotes,
                      !.pending = 1..Len(secureNotes),
                      !.decrypted = [i \in 1..Len(secureNotes) |-> Undefined]]
    /\ log' = <<[level |-> "debug",
                 message |-> <<"Retrieving: ",
                               IF Truthy(titleFilter) THEN titleFilter
                               ELSE Str(<<>>)>>]>>
    /\ stdout' = <<>>
    /\ UNCHANGED keyVars

\* mutant of DecryptSettles: a failed decryption is caught and yields an empty note
DecryptSettlesLenient(i) ==
    /\ i \in note.pending
    /\ LET r == decryptTransaction(note.secureNotes[i], note.secrets)
       IN  IF note.pc # "decrypting"
           THEN note' = [note EXCEPT !.pending = @ \ {i}]
           ELSE note' = [note EXCEPT !.pending = @ \ {i},
                                     !.decrypted[i] = IF r.ok THEN r.value
                                                      ELSE NoteItem(<<>>, "")]
    /\ UNCHANGED <<stdout, log>>
    /\ UNCHANGED keyVars

\* one of the decryptions of Promise.all settles: fulfilled with the note, or
\* rejected, and then Promise.all is rejected, if it is not settled yet
DecryptSettles(i) ==
    /\ i \in note.pending
    /\ LET r == decryptTransaction(note.secureNotes[i], note.secrets)
       IN  IF note.pc # "decrypting"
           THEN note' = [note EXCEPT !.pending = @ \ {i}]
           ELSE IF r.ok
           THEN note' = [note EXCEPT !.pending = @ \ {i},
                                     !.decrypted[i] = r.value]
           ELSE note' = [note EXCEPT !.pending = @ \ {i},
                                     !.pc = "done",
                                     !.error = "DecryptionFailed"]
    /\ UNCHANGED <<stdout, log>>
    /\ UNCHANGED keyVars

\* Promise.all is fulfilled: the notes are reshaped, filtered and sorted, and
\* the target is resolved
ResolveNote ==
    /\ note.pc = "decrypting"
    /\ note.pending = {}
    /\ LET beautifiedNotes == [i \in 1..Len(note.decrypted) |->
                                  Beautify(note.decrypted[i])]
           matchedNotes == DefaultSort(MatchedNotes(beautifiedNotes, note.titleFilter))
       IN  IF Len(matchedNotes) = 0
           THEN /\ note' = [note EXCEPT !.pc = "done", !.error = "No note found"]
                /\ UNCHANGED stdout
           ELSE IF Len(matchedNotes) = 1
           THEN /\ note' = [note EXCEPT !.pc = "done", !.matched = matchedNotes,
                                        !.selected = matchedNotes[1]]
                /\ stdout' = Append(stdout, matchedNotes[1][ContentField])
           ELSE /\ note' = [note EXCEPT
                              !.pc = "asking",
                              !.matched = matchedNotes,
                              !.asked = Append(@, [matchedNotes |-> matchedNotes,
                                                   hasFilters |-> HasFilters(note.titleFilter)])]
                /\ UNCHANGED stdout
    /\ UNCHANGED log
    /\ UNCHANGED keyVars

\* mutant of AnswerChoice: the chosen note is logged as well
AnswerChoiceLogged(choice) ==
    /\ note.pc = "asking"
    /\ choice \in 1..Len(note.matched)
    /\ note' = [note EXCEPT !.pc = "done", !.selected = note.matched[choice]]
    /\ stdout' = Append(stdout, note.matched[choice][ContentField])
    /\ log' = Append(log, [level |-> "debug",
                           message |-> <<"Selected: ",
                                         note.matched[choice][ContentField]>>])
    /\ UNCHANGED keyVars

\* askSecureNoteChoice resolves with the note the user chose, and it is printed
AnswerChoice(choice) ==
    /\ note.pc = "asking"
    /\ choice \in 1..Len(note.matched)
    /\ note' = [note EXCEPT !.pc = "done", !.selected = note.matched[choice]]
    /\ stdout' = Append(stdout, note.matched[choice][ContentField])
    /\ UNCHANGED log
    /\ UNCHANGED keyVars

\* the process ends
FinishNote ==
    /\ note.pc = "done"
    /\ note.pending = {}
    /\ note' = IdleNote
    /\ stdout' = <<>>
    /\ log' = <<>>
    /\ UNCHANGED keyVars

NextNote ==
    \/ \E titleFilter \in TitleFilters, secrets \in NoteSecrets, table \in TablesInputs :
          StartNote(titleFilter, secrets, table)
    \/ \E i \in 1..MaxTransactions : DecryptSettles(i)
    \/ ResolveNote
    \/ \E choice \in 1..MaxTransactions : AnswerChoice(choice)
    \/ FinishNote

-----------------------------------------------------------------------------
(* getSecrets: the call *)

NoResult == [status |-> "none", error |-> "", secrets |-> Undefined,
             login |-> "", branch |-> "none"]

IdleCall ==
    [pc |-> "idle", login |-> "", deviceKeys |-> Null,
     masterPassword |-> Undefined, supplied |-> Undefined,
     localKey |-> Undefined, derivate |-> Undefined,
     accessKey |-> Undefined, secretKey |-> Undefined,
     branch |-> "none", keytarRejected |-> FALSE,
     pre |-> [keychain |-> [l \in Logins |-> Null], device |-> {}]]

EncryptedFields == {"secretKeyEncrypted", "masterPasswordEncrypted", "localKeyEncrypted"}

\* what a caller can pass as deviceKeys: nothing, a row of the table, or a row
\* of the table with one damaged blob
DeviceKeysInputs ==
    {Null} \cup device
    \cup {[r EXCEPT ![f] = Corrupt(@)] : r \in device, f \in EncryptedFields}

\* what a caller can pass as masterPassword, and what the prompt can answer
PasswordInputs == {Undefined} \cup Passwords
PromptAnswers == Passwords

Returned(secrets) ==
    [status |-> "returned", error |-> "", secrets |-> secrets,
     login |-> call.login, branch |-> call.branch]

Thrown(error) ==
    [status |-> "threw", error |-> error, secrets |-> Undefined,
     login |-> call.login, branch |-> call.branch]

Init ==
    /\ keychain = [l \in Logins |-> Null]
    /\ device = {}
    /\ registered = 0
    /\ call = IdleCall
    /\ io = <<>>
    /\ result = NoResult
    /\ firstRun = [l \in Logins |-> Null]
    /\ note = IdleNote
    /\ stdout = <<>>
    /\ log = <<>>

\* getSecrets(db, deviceKeys, masterPassword) is called
Start(deviceKeys, masterPassword) ==
    /\ call.pc = "idle"
    /\ call' = [IdleCall EXCEPT
                  !.pc = IF Truthy(deviceKeys) THEN "getLocalKey" ELSE "promptLogin",
                  !.login = IF Truthy(deviceKeys) THEN deviceKeys.login ELSE "",
                  !.deviceKeys = deviceKeys,
                  !.masterPassword = masterPassword,
                  !.supplied = masterPassword,
                  !.pre = [keychain |-> keychain, device |-> device]]
    /\ io' = <<>>
    /\ UNCHANGED <<keychain, device, registered, result, firstRun>>
    /\ UNCHANGED noteVars

\* inquirer.prompt for the email address
PromptLogin(login) ==
    /\ call.pc = "promptLogin"
    /\ call' = [call EXCEPT !.pc = "getLocalKey", !.login = login]
    /\ io' = Append(io, "promptLogin")
    /\ UNCHANGED <<keychain, device, registered, result, firstRun>>
    /\ UNCHANGED noteVars

\* const localKey = await getLocalKey(login), and the choice of the branch
GetLocalKey ==
    /\ call.pc = "getLocalKey"
    /\ io' = Append(io, "keytar.getPassword")
    /\ LET localKey == getLocalKey(keychain[call.login])
           branch == Branch(call.deviceKeys, localKey)
           prompt == ~Truthy(call.masterPassword)
       IN  call' = [call EXCEPT
                      !.localKey = localKey,
                      !.branch = branch,
                      !.pc = CASE branch = "WithoutDB" ->
                                     IF prompt THEN "db_prompt" ELSE "db_derive"
                               [] branch = "WithoutKeychain" ->
                                     IF prompt THEN "kc_prompt" ELSE "kc_derive"
                               [] OTHER -> "fast"]
    /\ UNCHANGED <<keychain, device, registered, result, firstRun>>
    /\ UNCHANGED noteVars

\* the OS secret store is unreachable: keytar.getPassword or keytar.setPassword
\* rejects, and nothing in getSecrets catches it
KeytarRejects ==
    /\ call.pc \in {"getLocalKey", "db_setLocalKey", "kc_setLocalKey"}
    /\ io' = io \o CASE call.pc = "getLocalKey" -> <<"keytar.getPassword">>
                      [] call.pc = "db_setLocalKey" -> <<"randomBytes", "keytar.setPassword">>
                      [] OTHER -> <<"keytar.setPassword">>
    /\ call' = [call EXCEPT !.pc = "done", !.keytarRejected = TRUE]
    /\ result' = Thrown("KeychainError")
    /\ UNCHANGED <<keychain, device, registered, firstRun>>
    /\ UNCHANGED noteVars

\* masterPassword = await promptMasterPassword()
PromptMasterPassword(answer) ==
    /\ call.pc \in {"db_prompt", "kc_prompt"}
    /\ call' = [call EXCEPT
                  !.masterPassword = answer,
                  !.pc = IF call.pc = "db_prompt" THEN "db_derive" ELSE "kc_derive"]
    /\ io' = Append(io, "promptMasterPassword")
    /\ UNCHANGED <<keychain, device, registered, result, firstRun>>
    /\ UNCHANGED noteVars

\* const derivate = await getDerivateUsingParametersFromEncryptedData(...)
Derive ==
    /\ call.pc \in {"db_derive", "kc_derive"}
    /\ call' = [call EXCEPT
                  !.derivate = getDerivate(call.masterPassword,
                                           getDerivationParametersForLocalKey(call.login)),
                  !.pc = IF call.pc = "db_derive" THEN "db_register" ELSE "kc_decrypt"]
    /\ io' = Append(io, "derive")
    /\ UNCHANGED <<keychain, device, registered, result, firstRun>>
    /\ UNCHANGED noteVars

\* mutant of RegisterDevice: a new local key is made whatever the keychain gave
RegisterDeviceAlwaysNewKey ==
    /\ call.pc = "db_register"
    /\ registered < MaxRegistrations
    /\ registered' = registered + 1
    /\ call' = [call EXCEPT
                  !.accessKey = DeviceAccessKey(registered + 1),
                  !.secretKey = DeviceSecretKey(registered + 1),
                  !.pc = "db_setLocalKey"]
    /\ io' = Append(io, "registerDevice")
    /\ UNCHANGED <<keychain, device, result, firstRun>>
    /\ UNCHANGED noteVars

\* mutant of RegisterDevice: the record of the new pair is written at once,
\* before its keys are encrypted
RegisterDeviceWritesRecord ==
    /\ call.pc = "db_register"
    /\ registered < MaxRegistrations
    /\ registered' = registered + 1
    /\ call' = [call EXCEPT
                  !.accessKey = DeviceAccessKey(registered + 1),
                  !.secretKey = DeviceSecretKey(registered + 1),
                  !.pc = IF ~Truthy(call.localKey) THEN "db_setLocalKey"
                         ELSE "db_replace"]
    /\ io' = Append(io, "registerDevice")
    /\ device' = ReplaceInto(device, [login |-> call.login,
                                      accessKey |-> DeviceAccessKey(registered + 1)])
    /\ UNCHANGED <<keychain, result, firstRun>>
    /\ UNCHANGED noteVars

\* const { deviceAccessKey, deviceSecretKey } = await registerDevice({ login })
RegisterDevice ==
    /\ call.pc = "db_register"
    /\ registered < MaxRegistrations
    /\ registered' = registered + 1
    /\ call' = [call EXCEPT
                  !.accessKey = DeviceAccessKey(registered + 1),
                  !.secretKey = DeviceSecretKey(registered + 1),
                  !.pc = IF ~Truthy(call.localKey) THEN "db_setLocalKey"
                         ELSE "db_replace"]
    /\ io' = Append(io, "registerDevice")
    /\ UNCHANGED <<keychain, device, result, firstRun>>
    /\ UNCHANGED noteVars

\* registerDevice rejects
RegisterDeviceFails ==
    /\ call.pc = "db_register"
    /\ call' = [call EXCEPT !.pc = "done"]
    /\ result' = Thrown("RegistrationFailed")
    /\ io' = Append(io, "registerDevice")
    /\ UNCHANGED <<keychain, device, registered, firstRun>>
    /\ UNCHANGED noteVars

\* localKey = await setLocalKey(login): a new key, stored in the keychain
SetNewLocalKey(localKey) ==
    /\ call.pc = "db_setLocalKey"
    /\ io' = io \o <<"randomBytes", "keytar.setPassword">>
    /\ keychain' = [keychain EXCEPT ![call.login] = EncodeLocalKey(localKey)]
    /\ call' = [call EXCEPT !.localKey = localKey, !.pc = "db_replace"]
    /\ UNCHANGED <<device, registered, result, firstRun>>
    /\ UNCHANGED noteVars

\* mutant of RandomBytesFails: the random source hands over the two bytes it
\* has, and they are stored as the key
RandomBytesShort ==
    /\ call.pc = "db_setLocalKey"
    /\ io' = io \o <<"randomBytes", "keytar.setPassword">>
    /\ keychain' = [keychain EXCEPT ![call.login] = EncodeLocalKey(Buf(<<7, 9>>))]
    /\ call' = [call EXCEPT !.localKey = Buf(<<7, 9>>), !.pc = "db_replace"]
    /\ UNCHANGED <<device, registered, result, firstRun>>
    /\ UNCHANGED noteVars

\* crypto.randomBytes(LocalKeyBytes) cannot fill the buffer: it hands over no
\* shorter buffer, it throws, and setLocalKey and getSecrets reject with it
RandomBytesFails ==
    /\ call.pc = "db_setLocalKey"
    /\ io' = Append(io, "randomBytes")
    /\ call' = [call EXCEPT !.pc = "done"]
    /\ result' = Thrown("KeyGenerationFailed")
    /\ UNCHANGED <<keychain, device, registered, firstRun>>
    /\ UNCHANGED noteVars

\* the three encryptions, REPLACE INTO device, and the return of getSecretsWithoutDB
ReplaceDevice ==
    /\ call.pc = "db_replace"
    /\ LET row == DeviceRow(call.login, call.accessKey, call.secretKey,
                            call.masterPassword, call.localKey, call.derivate)
           secrets == Secrets(call.login, call.masterPassword,
                              call.accessKey, call.secretKey)
       IN  /\ device' = ReplaceInto(device, row)
           /\ result' = Returned(secrets)
           /\ firstRun' = [firstRun EXCEPT ![call.login] = secrets]
    /\ call' = [call EXCEPT !.pc = "done"]
    /\ io' = Append(io, "db.replace")
    /\ UNCHANGED <<keychain, registered>>
    /\ UNCHANGED noteVars

\* mutant of RecoverLocalKey: the local key is stored as soon as it is decrypted
RecoverLocalKeyEager ==
    /\ call.pc = "kc_decrypt"
    /\ io' = Append(io, "decrypt")
    /\ LET localKey == decrypt(call.deviceKeys.localKeyEncrypted, call.derivate)
           r == WithoutKeychainSecrets(call.login, call.deviceKeys,
                                       call.masterPassword, call.derivate)
       IN  /\ keychain' = IF localKey.ok
                          THEN [keychain EXCEPT ![call.login] = EncodeLocalKey(localKey.value)]
                          ELSE keychain
           /\ IF r.ok
              THEN /\ call' = [call EXCEPT !.localKey = r.localKey,
                                           !.secretKey = r.secrets.secretKey,
                                           !.pc = "kc_setLocalKey"]
                   /\ UNCHANGED result
              ELSE /\ call' = [call EXCEPT !.pc = "done"]
                   /\ result' = Thrown("DecryptionFailed")
    /\ UNCHANGED <<device, registered, firstRun>>
    /\ UNCHANGED noteVars

\* mutant of RecoverLocalKey: the device is registered again before the decryptions
RecoverLocalKeyRegisters ==
    /\ call.pc = "kc_decrypt"
    /\ io' = io \o <<"registerDevice", "decrypt">>
    /\ LET r == WithoutKeychainSecrets(call.login, call.deviceKeys,
                                       call.masterPassword, call.derivate)
       IN  IF r.ok
           THEN /\ call' = [call EXCEPT !.localKey = r.localKey,
                                        !.secretKey = r.secrets.secretKey,
                                        !.pc = "kc_setLocalKey"]
                /\ UNCHANGED result
           ELSE /\ call' = [call EXCEPT !.pc = "done"]
                /\ result' = Thrown("DecryptionFailed")
    /\ UNCHANGED <<keychain, device, registered, firstRun>>
    /\ UNCHANGED noteVars

\* mutant of RecoverLocalKey: after a failed decryption the password is asked again
RecoverLocalKeyRetry ==
    /\ call.pc = "kc_decrypt"
    /\ io' = Append(io, "decrypt")
    /\ LET r == WithoutKeychainSecrets(call.login, call.deviceKeys,
                                       call.masterPassword, call.derivate)
       IN  IF r.ok
           THEN call' = [call EXCEPT !.localKey = r.localKey,
                                     !.secretKey = r.secrets.secretKey,
                                     !.pc = "kc_setLocalKey"]
           ELSE call' = [call EXCEPT !.pc = "kc_prompt"]
    /\ UNCHANGED <<keychain, device, registered, result, firstRun>>
    /\ UNCHANGED noteVars

\* the two decryptions of getSecretsWithoutKeychain
RecoverLocalKey ==
    /\ call.pc = "kc_decrypt"
    /\ io' = Append(io, "decrypt")
    /\ LET r == WithoutKeychainSecrets(call.login, call.deviceKeys,
                                       call.masterPassword, call.derivate)
       IN  IF r.ok
           THEN /\ call' = [call EXCEPT !.localKey = r.localKey,
                                        !.secretKey = r.secrets.secretKey,
                                        !.pc = "kc_setLocalKey"]
                /\ UNCHANGED result
           ELSE /\ call' = [call EXCEPT !.pc = "done"]
                /\ result' = Thrown("DecryptionFailed")
    /\ UNCHANGED <<keychain, device, registered, firstRun>>
    /\ UNCHANGED noteVars

\* mutant of RestoreLocalKey: setLocalKey(login) without the key, which makes a new one
RestoreLocalKeyFresh ==
    /\ call.pc = "kc_setLocalKey"
    /\ io' = io \o <<"randomBytes", "keytar.setPassword">>
    /\ call' = [call EXCEPT !.pc = "done"]
    /\ \E localKey \in RandomKeys :
          keychain' = [keychain EXCEPT ![call.login] = EncodeLocalKey(localKey)]
    /\ result' = Returned(Secrets(call.login, call.masterPassword,
                                  call.deviceKeys.accessKey, call.secretKey))
    /\ UNCHANGED <<device, registered, firstRun>>
    /\ UNCHANGED noteVars

\* mutant of RestoreLocalKey: the local key is not stored again
RestoreLocalKeyForgotten ==
    /\ call.pc = "kc_setLocalKey"
    /\ io' = io
    /\ call' = [call EXCEPT !.pc = "done"]
    /\ result' = Returned(Secrets(call.login, call.masterPassword,
                                  call.deviceKeys.accessKey, call.secretKey))
    /\ UNCHANGED <<keychain, device, registered, firstRun>>
    /\ UNCHANGED noteVars

\* await setLocalKey(login, localKey), and the return of getSecretsWithoutKeychain
RestoreLocalKey ==
    /\ call.pc = "kc_setLocalKey"
    /\ io' = Append(io, "keytar.setPassword")
    /\ call' = [call EXCEPT !.pc = "done"]
    /\ keychain' = [keychain EXCEPT ![call.login] = EncodeLocalKey(call.localKey)]
    /\ result' = Returned(Secrets(call.login, call.masterPassword,
                                  call.deviceKeys.accessKey, call.secretKey))
    /\ UNCHANGED <<device, registered, firstRun>>
    /\ UNCHANGED noteVars

\* mutant of FastPath: when the cached key does not open the record, the call
\* goes on as a Recovery
FastPathFallsBack ==
    /\ call.pc = "fast"
    /\ io' = Append(io, "decrypt")
    /\ LET r == FastSecrets(call.login, call.deviceKeys, call.masterPassword,
                            call.localKey)
       IN  IF r.ok
           THEN /\ call' = [call EXCEPT !.pc = "done"]
                /\ result' = Returned(r.secrets)
           ELSE /\ call' = [call EXCEPT !.pc = IF ~Truthy(call.masterPassword)
                                               THEN "kc_prompt" ELSE "kc_derive"]
                /\ UNCHANGED result
    /\ UNCHANGED <<keychain, device, registered, firstRun>>
    /\ UNCHANGED noteVars

\* the fast path: the decryptions under the cached local key, and the return
FastPath ==
    /\ call.pc = "fast"
    /\ io' = Append(io, "decrypt")
    /\ call' = [call EXCEPT !.pc = "done"]
    /\ LET r == FastSecrets(call.login, call.deviceKeys, call.masterPassword,
                            call.localKey)
       IN  result' = IF r.ok THEN Returned(r.secrets) ELSE Thrown("DecryptionFailed")
    /\ UNCHANGED <<keychain, device, registered, firstRun>>
    /\ UNCHANGED noteVars

-----------------------------------------------------------------------------
(* The environment of getSecrets, between calls *)

\* the user (or the OS) removes the keychain entry of a login
RemoveLocalKey(login) ==
    /\ call.pc = "idle"
    /\ Truthy(keychain[login])
    /\ keychain' = [keychain EXCEPT ![login] = Null]
    /\ UNCHANGED <<device, registered, call, io, result, firstRun>>
    /\ UNCHANGED noteVars

\* the caller takes the outcome of the call: getSecrets is over
Finish ==
    /\ call.pc = "done"
    /\ call' = IdleCall
    /\ io' = <<>>
    /\ result' = NoResult
    /\ UNCHANGED <<keychain, device, registered, firstRun>>
    /\ UNCHANGED noteVars

\* the process is killed in the middle of a call
Interrupt ==
    /\ call.pc \notin {"idle", "done"}
    /\ call' = IdleCall
    /\ io' = <<>>
    /\ result' = NoResult
    /\ UNCHANGED <<keychain, device, registered, firstRun>>
    /\ UNCHANGED noteVars

Next ==
    \/ \E deviceKeys \in DeviceKeysInputs, masterPassword \in PasswordInputs :
          Start(deviceKeys, masterPassword)
    \/ \E login \in Logins : PromptLogin(login)
    \/ GetLocalKey
    \/ KeytarRejects
    \/ \E answer \in PromptAnswers : PromptMasterPassword(answer)
    \/ Derive
    \/ RegisterDevice
    \/ RegisterDeviceFails
    \/ \E localKey \in RandomKeys : SetNewLocalKey(localKey)
    \/ RandomBytesFails
    \/ ReplaceDevice
    \/ RecoverLocalKey
    \/ RestoreLocalKey
    \/ FastPath
    \/ Finish
    \/ \E login \in Logins : RemoveLocalKey(login)
    \/ Interrupt

Spec == Init /\ [][Next]_vars

SpecNote == Init /\ [][NextNote]_vars

\* A caller that reads the device table before it calls: it passes the record
\* of the login, or nothing for a login that has no record
LoginsWithoutRecord == {l \in Logins : \A r \in device : r.login # l}

StoredInputs == device \cup (IF LoginsWithoutRecord = {} THEN {} ELSE {Null})

NextStored ==
    \/ \E deviceKeys \in StoredInputs, masterPassword \in PasswordInputs :
          Start(deviceKeys, masterPassword)
    \/ \E login \in LoginsWithoutRecord : PromptLogin(login)
    \/ GetLocalKey
    \/ KeytarRejects
    \/ \E answer \in PromptAnswers : PromptMasterPassword(answer)
    \/ Derive
    \/ RegisterDevice
    \/ RegisterDeviceFails
    \/ \E localKey \in RandomKeys : SetNewLocalKey(localKey)
    \/ RandomBytesFails
    \/ ReplaceDevice
    \/ RecoverLocalKey
    \/ RestoreLocalKey
    \/ FastPath
    \/ Finish
    \/ \E login \in Logins : RemoveLocalKey(login)
    \/ Interrupt

SpecStored == Init /\ [][NextStored]_vars

-----------------------------------------------------------------------------
(* Properties of getSecrets *)

RowsOf(login) == {r \in device : r.login = login}

\* the call has returned Secrets
HasReturned == call.pc = "done" /\ result.status = "returned"

\* the call has ended with the error
HasThrown(error) ==
    call.pc = "done" /\ result.status = "threw" /\ result.error = error

\* what a call for the login would do now, given the row and no password:
\* the branch it would take, and what the fast path would return
NextBranch(row) == Branch(row, getLocalKey(keychain[row.login]))
NextFast(row) == FastSecrets(row.login, row, Undefined, getLocalKey(keychain[row.login]))

\* C1: a first-run setup for a login without a record leaves exactly one record
\* of the login; a call made right after it with that record and no password
\* takes the fast path and returns what the setup returned; and whenever a call
\* given the stored record and no password returns, it returns the access key,
\* the secret key and the master password the setup of that record returned.
C1_FirstRunThenStoredRecord ==
    /\ (HasReturned /\ call.branch = "WithoutDB"
          /\ {r \in call.pre.device : r.login = call.login} = {})
       => /\ Cardinality(RowsOf(call.login)) = 1
          /\ \A row \in RowsOf(call.login) :
                /\ NextBranch(row) = "fast"
                /\ NextFast(row) = [ok |-> TRUE, secrets |-> result.secrets]
    /\ (HasReturned /\ call.deviceKeys \in device /\ ~Truthy(call.supplied))
       => /\ firstRun[call.login] # Null
          /\ result.secrets = firstRun[call.login]

C1_Witness ==
    /\ HasReturned
    /\ call.deviceKeys \in device
    /\ call.supplied = Undefined
    /\ call.branch = "fast"
    /\ result.secrets = firstRun[call.login]
    /\ result.secrets.masterPassword = Str(<<112, 233>>)

\* the master password the record of the login was set up with
SetupPassword(login) == firstRun[login].masterPassword

\* C2: in the Recovery branch with the stored record, the correct master
\* password opens the record; when the call returns, the secret key is the one
\* registered at first run, the keychain holds the local key of the record
\* again, and a next call with the record takes the fast path and returns the
\* same secret key; a call on the fast path prompts for no master password and
\* derives no key.
C2_RecoveryRepairsFastPath ==
    /\ (call.pc = "kc_decrypt" /\ call.deviceKeys \in device
          /\ call.masterPassword = SetupPassword(call.login))
       => WithoutKeychainSecrets(call.login, call.deviceKeys, call.masterPassword,
                                 call.derivate).ok
    /\ (HasReturned /\ call.branch = "WithoutKeychain" /\ call.deviceKeys \in device)
       => /\ result.secrets.secretKey = firstRun[call.login].secretKey
          /\ Truthy(keychain[call.login])
          /\ getLocalKey(keychain[call.login]) = call.deviceKeys.secretKeyEncrypted.key
          /\ NextBranch(call.deviceKeys) = "fast"
          /\ NextFast(call.deviceKeys).ok
          /\ NextFast(call.deviceKeys).secrets.secretKey = result.secrets.secretKey
    /\ call.branch = "fast"
       => \A i \in 1..Len(io) : io[i] \notin {"promptMasterPassword", "derive"}

C2_Witness ==
    /\ HasReturned
    /\ call.branch = "WithoutKeychain"
    /\ call.deviceKeys \in device
    /\ call.pre.keychain[call.login] = Null
    /\ keychain[call.login] # Null
    /\ result.secrets.secretKey = firstRun[call.login].secretKey

\* the inputs C3 is about: a master password other than the one the record
\* was created with, or a damaged localKeyEncrypted or secretKeyEncrypted
BadRecoveryInput ==
    \/ call.masterPassword # call.deviceKeys.localKeyEncrypted.key.password
    \/ ~call.deviceKeys.localKeyEncrypted.intact
    \/ ~call.deviceKeys.secretKeyEncrypted.intact

\* C3: a Recovery call with a wrong master password or a damaged
\* localKeyEncrypted or secretKeyEncrypted ends with a decryption error and no
\* Secrets, with the keychain and the device table as they were before the
\* call, and the stored record still opens with the correct master password.
C3_RecoveryFailsClosed ==
    /\ (call.pc = "done" /\ call.branch = "WithoutKeychain" /\ BadRecoveryInput)
       => /\ HasThrown("DecryptionFailed")
          /\ result.secrets = Undefined
    /\ (call.branch = "WithoutKeychain" /\ BadRecoveryInput)
       => /\ keychain = call.pre.keychain
          /\ device = call.pre.device
          /\ \A row \in RowsOf(call.login) :
                LET p == SetupPassword(call.login)
                IN  WithoutKeychainSecrets(
                        call.login, row, p,
                        getDerivate(p, getDerivationParametersForLocalKey(call.login))).ok

C3_WitnessWrongPassword ==
    /\ HasThrown("DecryptionFailed")
    /\ call.branch = "WithoutKeychain"
    /\ call.deviceKeys \in device
    /\ call.masterPassword # SetupPassword(call.login)

\* the external calls each branch may make
BranchCalls(branch) ==
    CASE branch = "WithoutDB" ->
            {"promptLogin", "keytar.getPassword", "promptMasterPassword", "derive",
             "registerDevice", "randomBytes", "keytar.setPassword", "db.replace"}
      [] branch = "WithoutKeychain" ->
            {"keytar.getPassword", "promptMasterPassword", "derive", "decrypt",
             "keytar.setPassword"}
      [] branch = "fast" -> {"keytar.getPassword", "decrypt"}
      [] OTHER -> {"promptLogin", "keytar.getPassword"}

BranchPositions(branch) ==
    CASE branch = "WithoutDB" ->
            {"db_prompt", "db_derive", "db_register", "db_setLocalKey", "db_replace",
             "done"}
      [] branch = "WithoutKeychain" ->
            {"kc_prompt", "kc_derive", "kc_decrypt", "kc_setLocalKey", "done"}
      [] branch = "fast" -> {"fast", "done"}
      [] OTHER -> {"idle", "promptLogin", "getLocalKey", "done"}

\* C4: the branch of a call is decided by the state at call time alone:
\* first-run setup exactly when no record is given, Recovery exactly when a
\* record is given and the keychain has no key of the login, the fast path
\* exactly when a record is given and the keychain has a key; and the call is
\* only ever at positions of its branch and makes only its calls.
C4_OneBranchPerCall ==
    /\ call.pc \in BranchPositions(call.branch)
    /\ \A i \in 1..Len(io) : io[i] \in BranchCalls(call.branch)
    /\ call.branch # "none"
       => /\ call.branch = "WithoutDB" <=> call.deviceKeys = Null
          /\ call.branch = "WithoutKeychain" <=>
                (call.deviceKeys # Null /\ call.pre.keychain[call.login] = Null)
          /\ call.branch = "fast" <=>
                (call.deviceKeys # Null /\ call.pre.keychain[call.login] # Null)

\* a first-run setup that found a key in the keychain
C4_Witness ==
    /\ HasReturned
    /\ call.branch = "WithoutDB"
    /\ call.pre.keychain[call.login] # Null
    /\ "db.replace" \in {io[i] : i \in 1..Len(io)}

\* C5: with the stored record and the correct master password, a call that
\* finds the keychain unreachable or empty raises no error: it goes through
\* the Recovery branch and returns the Secrets.
C5_UnavailableKeychainIsNoError ==
    (/\ call.pc = "done"
     /\ call.deviceKeys \in device
     /\ call.masterPassword = SetupPassword(call.login)
     /\ (call.keytarRejected \/ call.pre.keychain[call.login] = Null))
    => (HasReturned /\ call.branch = "WithoutKeychain")

IsCiphertext(blob) == DOMAIN blob = {"key", "payload", "intact"}

\* the secrets of a login in plaintext, as strings and as buffers, and every local key
PlainSecrets(login) ==
    LET s == firstRun[login]
    IN  {s.masterPassword, s.secretKey, BufferOf(Utf8Encode(Chars(s.masterPassword))),
         BufferOf(HexDecode(Chars(s.secretKey)))} \cup RandomKeys

BetweenCalls == call.pc \in {"idle", "done"}

\* C6: between calls, a row of the device table has the five columns; secretKeyEncrypted,
\* masterPasswordEncrypted and localKeyEncrypted are ciphertexts; no column
\* holds the master password, the secret key or a local key in plaintext; the
\* plaintext columns are the login and the access key.
C6_NoPlaintextSecretAtRest ==
    BetweenCalls =>
    \A r \in device :
        /\ DOMAIN r = {"login", "accessKey"} \cup EncryptedFields
        /\ r.login \in Logins
        /\ r.accessKey = firstRun[r.login].accessKey
        /\ \A f \in EncryptedFields : IsCiphertext(r[f])
        /\ LET plain == PlainSecrets(r.login)
           IN  \A f \in EncryptedFields \cup {"accessKey"} : r[f] \notin plain

C6_Witness ==
    /\ HasReturned
    /\ call.branch = "WithoutDB"
    /\ \E r \in device : r.login = call.login /\ r.accessKey = result.secrets.accessKey

Derivates ==
    {getDerivate(p, getDerivationParametersForLocalKey(l)) :
        p \in PasswordInputs, l \in Logins}

\* C7: between calls, in every row of the device table, the secret key and the master
\* password are encrypted under one local key, localKeyEncrypted is that local
\* key encrypted under the derivate of the master password of the setup and the
\* login, and no derivate encrypts the secret key or the master password; when
\* the setup returns, that local key is the one the keychain holds.
C7_EnvelopeHierarchy ==
    /\ BetweenCalls => \A r \in device :
          LET localKey == r.localKeyEncrypted.payload
              s == firstRun[r.login]
          IN  /\ localKey \in RandomKeys
              /\ r.secretKeyEncrypted = encryptAES(localKey, BufferOf(HexDecode(Chars(s.secretKey))))
              /\ r.masterPasswordEncrypted =
                    encryptAES(localKey, BufferOf(Utf8Encode(Chars(s.masterPassword))))
              /\ r.localKeyEncrypted.key =
                    getDerivate(s.masterPassword, getDerivationParametersForLocalKey(r.login))
              /\ r.secretKeyEncrypted.key \notin Derivates
              /\ r.masterPasswordEncrypted.key \notin Derivates
    /\ (HasReturned /\ call.branch = "WithoutDB")
       => \A r \in RowsOf(call.login) :
             /\ r.localKeyEncrypted.payload = getLocalKey(keychain[call.login])
             /\ r.localKeyEncrypted.key.password = call.masterPassword

\* a setup under a key that was in the keychain already
C7_Witness ==
    /\ HasReturned
    /\ call.branch = "WithoutDB"
    /\ call.pre.keychain[call.login] # Null
    /\ \E r \in device : r.login = call.login /\ r.secretKeyEncrypted.key = call.localKey

\* C8: between calls, the device table holds at most one row per login; a first-run setup
\* for a login that has a row leaves the rows of the other logins, and one row
\* of the login: the new one.
C8_OneRecordPerLogin ==
    /\ BetweenCalls => \A l \in Logins : Cardinality(RowsOf(l)) <= 1
    /\ (HasReturned /\ call.branch = "WithoutDB")
       => /\ device = {r \in call.pre.device : r.login # call.login}
                      \cup {DeviceRow(call.login, call.accessKey, call.secretKey,
                                      call.masterPassword, call.localKey, call.derivate)}
          /\ \A r \in RowsOf(call.login) :
                /\ r.accessKey = result.secrets.accessKey
                /\ r \notin call.pre.device

C8_Witness ==
    /\ HasReturned
    /\ call.branch = "WithoutDB"
    /\ \E r \in call.pre.device : r.login = call.login
    /\ \E r \in call.pre.device : r.login # call.login
    /\ Cardinality(device) = 2

-----------------------------------------------------------------------------
(* Properties of getNote *)

\* the candidate list of the call, once every decryption is fulfilled
Candidates ==
    DefaultSort(MatchedNotes([i \in 1..Len(note.decrypted) |-> Beautify(note.decrypted[i])],
                             note.titleFilter))

\* the call has resolved its target, or failed to
Resolved == note.pc \in {"asking", "done"} /\ note.error # "DecryptionFailed"

\* a title filter was applied: there is one, and it is not the empty string
FilterApplied == note.titleFilter # Null /\ note.titleFilter # Str(<<>>)

\* C9: with no candidate getNote fails with "No note found" and asks nothing;
\* with one candidate it selects it and asks nothing; with two or more it has
\* called askSecureNoteChoice exactly once, with every candidate and with
\* hasFilters true exactly when a title filter was applied, and the note it
\* selects is one of the candidates.
C9_SelectionByCandidateCount ==
    /\ Len(note.asked) <= 1
    /\ ~Resolved => note.asked = <<>>
    /\ Resolved =>
          /\ Len(Candidates) = 0 =>
                /\ note.pc = "done" /\ note.error = "No note found"
                /\ note.asked = <<>> /\ note.selected = Undefined
          /\ Len(Candidates) = 1 =>
                /\ note.pc = "done" /\ note.error = ""
                /\ note.asked = <<>> /\ note.selected = Candidates[1]
          /\ Len(Candidates) >= 2 =>
                /\ note.error = ""
                /\ note.asked = <<[matchedNotes |-> Candidates,
                                   hasFilters |-> FilterApplied]>>
                /\ note.pc = "done" =>
                      \E i \in 1..Len(Candidates) : note.selected = Candidates[i]

C9_WitnessAskedWithFilter ==
    /\ note.pc = "asking"
    /\ Len(Candidates) = 2
    /\ FilterApplied
    /\ Len(note.secureNotes) = 3
    /\ note.asked[1].hasFilters

\* a SECURENOTE transaction the query returns cannot be decrypted with the secrets
SomeDecryptionFails ==
    \E i \in 1..Len(note.table) :
        /\ note.table[i].login = note.secrets.login
        /\ note.table[i].action = "BACKUP_EDIT"
        /\ note.table[i].type = "SECURENOTE"
        /\ ~decryptTransaction(note.table[i], note.secrets).ok

\* C10: when the decryption of one SECURENOTE transaction of the call fails,
\* in whatever order the decryptions settle, the call ends only with the
\* decryption error, and it has ended once they have all settled; it builds no
\* candidate list, does not call askSecureNoteChoice, selects no note and
\* prints nothing.
C10_DecryptionFailureAborts ==
    (note.pc # "idle" /\ SomeDecryptionFails) =>
        /\ note.pc \in {"decrypting", "done"}
        /\ note.pc = "done" => note.error = "DecryptionFailed"
        /\ note.pending = {} => note.pc = "done"
        /\ note.matched = <<>>
        /\ note.asked = <<>>
        /\ note.selected = Undefined
        /\ stdout = <<>>

\* the failure came after another decryption was fulfilled and before the last settled
C10_Witness ==
    /\ note.pc = "done"
    /\ note.error = "DecryptionFailed"
    /\ note.pending # {}
    /\ \E i \in 1..Len(note.decrypted) : note.decrypted[i] # Undefined


\* the title holds the filter at some offset, letter by letter, whatever the case
ContainsIgnoringCase(title, filter) ==
    \E i \in 0..(Len(title) - Len(filter)) :
        \A j \in 1..Len(filter) : ToLowerChar(title[i + j]) = ToLowerChar(filter[j])

\* the decrypted secure notes of the call, reshaped, in the order of the query
DecryptedNotes == [i \in 1..Len(note.decrypted) |-> Beautify(note.decrypted[i])]

\* the decrypted notes whose title holds the filter
NotesWithTitle(filter) ==
    LET Test(item) == ContainsIgnoringCase(item[TitleField], filter)
    IN  SelectSeq(DecryptedNotes, Test)

\* C11: once the target is resolved, with a title filter the candidates are
\* exactly the decrypted secure notes whose title contains the filter as a
\* case-insensitive substring, without one they are all the decrypted secure
\* notes, and a filter no title contains ends the call with "No note found".
C11_FilterSemantics ==
    Resolved =>
        /\ note.titleFilter # Null =>
              /\ note.matched = NotesWithTitle(note.titleFilter.str)
              /\ NotesWithTitle(note.titleFilter.str) = <<>> =>
                    (note.pc = "done" /\ note.error = "No note found")
        /\ note.titleFilter = Null => note.matched = DecryptedNotes

\* the filter in capitals keeps the one note titled "Wifi" and drops the other note
C11_Witness ==
    /\ note.pc = "done"
    /\ note.error = ""
    /\ note.titleFilter = Str(<<"W", "I", "F", "I">>)
    /\ Len(note.decrypted) = 2
    /\ Len(note.matched) = 1
    /\ note.selected[TitleField] = <<"W", "i", "f", "i">>

\* C12: a getNote call writes to the output at most once: when it ends
\* without error, exactly the content field of the selected note; as long as
\* it has not selected a note, and when it fails, nothing; and the log holds
\* the one line of the title filter, never a content.
C12_ContentOnlyToOutput ==
    /\ Len(stdout) <= 1
    /\ (note.pc = "done" /\ note.error = "") => stdout = <<note.selected[ContentField]>>
    /\ (note.pc # "done" \/ note.error # "") => stdout = <<>>
    /\ note.pc # "idle" =>
          log = <<[level |-> "debug",
                   message |-> <<"Retrieving: ",
                                 IF FilterApplied THEN note.titleFilter ELSE Str(<<>>)>>]>>

\* a note chosen among several is printed
C12_Witness ==
    /\ note.pc = "done"
    /\ note.error = ""
    /\ Len(note.asked) = 1
    /\ Len(note.matched) >= 2
    /\ stdout = <<note.selected[ContentField]>>
    /\ \E i \in 1..Len(note.matched) : note.matched[i][ContentField] # stdout[1]

-----------------------------------------------------------------------------
(* Properties of getSecrets: effects and their order *)

\* how many times the call has made the external call
Count(name) == Cardinality({i \in 1..Len(io) : io[i] = name})

\* the call is past the place where its branch asks for the master password
PastPrompt ==
    call.pc \in {"db_derive", "db_register", "db_setLocalKey", "db_replace",
                 "kc_derive", "kc_decrypt", "kc_setLocalKey"}

\* C13: a call asks for the master password at most once and derives at most
\* once; it asks only in first-run setup and in Recovery, exactly when no
\* master password was supplied; on the fast path it neither asks nor derives;
\* and a failed decryption is the last thing it does: the call ends with the
\* error, after one decryption.
C13_NoRetry ==
    /\ Count("promptMasterPassword") <= 1
    /\ Count("derive") <= 1
    /\ Count("promptMasterPassword") = 1 =>
          (~Truthy(call.supplied) /\ call.branch \in {"WithoutDB", "WithoutKeychain"})
    /\ PastPrompt => (Count("promptMasterPassword") = 1 <=> ~Truthy(call.supplied))
    /\ call.branch = "fast" =>
          (Count("promptMasterPassword") = 0 /\ Count("derive") = 0)
    /\ HasThrown("DecryptionFailed") =>
          (Count("decrypt") = 1 /\ io[Len(io)] = "decrypt")
    /\ (Count("decrypt") = 1 /\ result.status = "none") =>
          call.pc = "kc_setLocalKey"

\* a Recovery that asked for the password and could not open the record with it
C13_Witness ==
    /\ HasThrown("DecryptionFailed")
    /\ call.branch = "WithoutKeychain"
    /\ call.deviceKeys \in device
    /\ io = <<"keytar.getPassword", "promptMasterPassword", "derive", "decrypt">>

StoredRecord(login) ==
    IF RowsOf(login) = {} THEN Null ELSE CHOOSE r \in RowsOf(login) : TRUE

\* the setup is between the registration and the upsert
AfterRegistration == call.pc \in {"db_setLocalKey", "db_replace"}

\* the effects of a first-run setup, in their order
C15_SetupEffects ==
    /\ call.branch = "WithoutDB" =>
          \A i, j \in 1..Len(io) :
             /\ (io[i] = "registerDevice" /\ io[j] \in {"randomBytes", "keytar.setPassword"})
                   => i < j
             /\ io[i] = "db.replace" => (i = Len(io) /\ HasReturned)
    /\ HasThrown("RegistrationFailed") =>
          /\ call.branch = "WithoutDB"
          /\ keychain = call.pre.keychain
          /\ device = call.pre.device
    /\ AfterRegistration =>
          /\ device = call.pre.device
          /\ Count("registerDevice") = 1
          /\ call.accessKey = DeviceAccessKey(registered)
          /\ call.secretKey = DeviceSecretKey(registered)
          /\ \A r \in device : r.accessKey # call.accessKey

\* an interruption between the registration and the upsert
C15_Interrupted ==
    (AfterRegistration /\ call'.pc = "idle") =>
        /\ device' = call.pre.device
        /\ RowsOf(call.login) = {} =>
              /\ StoredRecord(call.login)' = Null
              /\ Branch(StoredRecord(call.login)', getLocalKey(keychain'[call.login]))
                    = "WithoutDB"

\* C15: in a first-run setup the registration comes before the write of the
\* keychain, and the upsert is the last effect; a failed registration ends the
\* call with the keychain and the device table unchanged; between the
\* registration and the upsert the device table is the one of before the call,
\* and an interruption there leaves it so: the login still has no record, the
\* next call for it is a first-run setup again, and a setup that far has
\* registered once, for a pair no record holds.
C15_RegistrationBeforePersistence ==
    [](C15_SetupEffects) /\ [][C15_Interrupted]_vars

\* a setup that registers a second pair for a login whose first setup was
\* interrupted after it had stored a local key
C15_Witness ==
    /\ call.pc = "db_replace"
    /\ call.pre.device = {}
    /\ call.pre.keychain[call.login] # Null
    /\ registered = 2
    /\ call.accessKey = DeviceAccessKey(2)

\* the local key the keychain held for the login when the call began
CachedBefore == getLocalKey(call.pre.keychain[call.login])

\* C16: a first-run setup that finds a local key in the keychain generates no
\* key and does not write the keychain, and the record it leaves is encrypted
\* under that key; a setup that finds none has, when it returns, generated one
\* key of LocalKeyBytes bytes and stored it for the login, and the record is
\* encrypted under it; the keychain entries of other logins stay as they were.
C16_CachedKeyReused ==
    call.branch = "WithoutDB" =>
        /\ \A l \in Logins \ {call.login} : keychain[l] = call.pre.keychain[l]
        /\ call.pre.keychain[call.login] # Null =>
              /\ Count("randomBytes") = 0
              /\ Count("keytar.setPassword") = 0
              /\ keychain = call.pre.keychain
              /\ HasReturned =>
                    \A r \in RowsOf(call.login) :
                       /\ r.secretKeyEncrypted.key = CachedBefore
                       /\ r.masterPasswordEncrypted.key = CachedBefore
                       /\ r.localKeyEncrypted.payload = CachedBefore
        /\ (call.pre.keychain[call.login] = Null /\ HasReturned) =>
              /\ Count("randomBytes") = 1
              /\ Count("keytar.setPassword") = 1
              /\ call.localKey \in RandomKeys
              /\ Len(Bytes(call.localKey)) = LocalKeyBytes
              /\ keychain[call.login] = EncodeLocalKey(call.localKey)
              /\ getLocalKey(keychain[call.login]) = call.localKey
              /\ \A r \in RowsOf(call.login) :
                    /\ r.secretKeyEncrypted.key = call.localKey
                    /\ r.masterPasswordEncrypted.key = call.localKey
                    /\ r.localKeyEncrypted.payload = call.localKey

\* a setup for a login that has no record and a key in the keychain
C16_Witness ==
    /\ HasReturned
    /\ call.branch = "WithoutDB"
    /\ call.pre.keychain[call.login] # Null
    /\ {r \in call.pre.device : r.login = call.login} = {}
    /\ io = <<"promptLogin", "keytar.getPassword", "derive", "registerDevice", "db.replace">>
    /\ \E r \in RowsOf(call.login) : r.secretKeyEncrypted.key = CachedBefore

\* C17: a call that is not a first-run setup leaves the device table as it
\* was and neither registers nor upserts; a first-run setup registers at most
\* once, and exactly once when it returns; the Recovery branch writes nothing
\* but the local key of the login into the keychain, which it has done when it
\* returns; the fast path leaves keychain and device table as they were.
C17_WritesPerBranch ==
    /\ call.branch \in {"WithoutKeychain", "fast"} =>
          /\ device = call.pre.device
          /\ Count("registerDevice") = 0
          /\ Count("db.replace") = 0
    /\ call.branch = "WithoutDB" =>
          /\ Count("registerDevice") <= 1
          /\ HasReturned => (Count("registerDevice") = 1 /\ Count("db.replace") = 1)
    /\ call.branch = "WithoutKeychain" =>
          /\ \A l \in Logins \ {call.login} : keychain[l] = call.pre.keychain[l]
          /\ keychain[call.login] \in {call.pre.keychain[call.login],
                                       EncodeLocalKey(call.localKey)}
          /\ keychain # call.pre.keychain => HasReturned
          /\ HasReturned =>
                /\ keychain[call.login] = EncodeLocalKey(call.localKey)
                /\ Count("keytar.setPassword") = 1
    /\ call.branch = "fast" =>
          /\ keychain = call.pre.keychain
          /\ Count("keytar.setPassword") = 0

\* a Recovery that returned, with a record in the table and the key stored again
C17_Witness ==
    /\ HasReturned
    /\ call.branch = "WithoutKeychain"
    /\ device # {}
    /\ device = call.pre.device
    /\ keychain # call.pre.keychain
    /\ registered = 1

\* C18: under callers that pass the stored record of the login, or nothing
\* when it has none, whenever the keychain holds a local key of a login and the
\* device table a record of it, that key is the one the record's
\* secretKeyEncrypted and masterPasswordEncrypted are encrypted under, so the
\* fast path on the record succeeds; and no call on the fast path ends with a
\* decryption error.
C18_CachedKeyOpensRecord ==
    /\ \A l \in Logins : \A r \in RowsOf(l) :
          Truthy(keychain[l]) =>
             /\ r.secretKeyEncrypted.key = getLocalKey(keychain[l])
             /\ r.masterPasswordEncrypted.key = getLocalKey(keychain[l])
             /\ NextBranch(r) = "fast"
             /\ NextFast(r).ok
    /\ call.deviceKeys # Null => call.deviceKeys \in device
    /\ ~(call.branch = "fast" /\ HasThrown("DecryptionFailed"))

\* the fast path returns for a login whose key was removed from the keychain
\* and then recovered, after a setup of the other login that was interrupted
C18_Witness ==
    /\ HasReturned
    /\ call.branch = "fast"
    /\ Cardinality(device) = 1
    /\ registered = 2
    /\ \A l \in Logins : keychain[l] # Null
    /\ \E l \in Logins : keychain[l] # keychain[call.login]

\* the decryption of a blob of the given record under the key the call read
Opened(field) == decrypt(call.deviceKeys[field], call.localKey)

\* C19: a call on the fast path that was given a master password returns it
\* as the master password, whenever the secret key of the record opens, be the
\* password the one of the record or not, and be masterPasswordEncrypted
\* readable or not; given none, it returns the text of masterPasswordEncrypted
\* decrypted under the cached local key.
C19_FastPathMasterPassword ==
    (call.pc = "done" /\ call.branch = "fast" /\ ~call.keytarRejected) =>
        /\ Truthy(call.supplied) =>
              /\ HasReturned <=> Opened("secretKeyEncrypted").ok
              /\ HasReturned => result.secrets.masterPassword = call.supplied
        /\ ~Truthy(call.supplied) =>
              /\ HasReturned <=> (Opened("secretKeyEncrypted").ok
                                     /\ Opened("masterPasswordEncrypted").ok)
              /\ HasReturned =>
                    result.secrets.masterPassword =
                       Str(Utf8Decode(Bytes(Opened("masterPasswordEncrypted").value)))
        /\ HasReturned =>
              /\ result.secrets.login = call.login
              /\ result.secrets.accessKey = call.deviceKeys.accessKey
              /\ result.secrets.secretKey =
                    Str(HexEncode(Bytes(Opened("secretKeyEncrypted").value)))

\* the fast path returns a supplied password that is not the one of the record
C19_Witness ==
    /\ HasReturned
    /\ call.branch = "fast"
    /\ call.deviceKeys \in device
    /\ Truthy(call.supplied)
    /\ call.supplied # SetupPassword(call.login)
    /\ result.secrets.masterPassword = call.supplied

\* the key the keychain gave is not the one the given record is encrypted under
KeyMismatch ==
    /\ call.branch = "fast"
    /\ call.localKey # call.deviceKeys.secretKeyEncrypted.key
    /\ call.localKey # call.deviceKeys.masterPasswordEncrypted.key

\* C20: a call that reads from the keychain a local key that is not the key of
\* the given record stays on the fast path and ends with a decryption error,
\* with or without a supplied master password: it asks for no master password,
\* derives nothing, leaves keychain and device table as they were, and a next
\* call with the record takes the fast path and fails again.
C20_WrongCachedKeyFails ==
    KeyMismatch =>
        /\ call.pc \in {"fast", "done"}
        /\ call.pc = "done" => HasThrown("DecryptionFailed")
        /\ Count("promptMasterPassword") = 0
        /\ Count("derive") = 0
        /\ keychain = call.pre.keychain
        /\ device = call.pre.device
        /\ call.pc = "done" =>
              LET localKey == getLocalKey(keychain[call.login])
              IN  /\ Branch(call.deviceKeys, localKey) = "fast"
                  /\ \A p \in PasswordInputs :
                        ~FastSecrets(call.login, call.deviceKeys, p, localKey).ok

\* the stored record, a supplied password, and a key left in the keychain by
\* a second setup that was interrupted
C20_Witness ==
    /\ HasThrown("DecryptionFailed")
    /\ KeyMismatch
    /\ call.deviceKeys \in device
    /\ Truthy(call.supplied)
    /\ call.localKey \in RandomKeys

=============================================================================
